---------------------------- MODULE Spec2Model ----------------------------
(***************************************************************************)
(* A model of ncsales/cli.py: the lead-scoring pipeline                    *)
(*   get_data -> parse_row -> process_file (fold, extremes, normalise)     *)
(*   -> get_quartile_label.                                                *)
(*                                                                         *)
(* Python values.  A str is a sequence of one-character strings; a list    *)
(* item is tagged with its Python type: [str |-> s], [int |-> n], or is a  *)
(* float.  A float is held at one of two scales, or is special:            *)
(*   [flt |-> n]   n / FLOAT_UNIT, exactly (an ordinary number);           *)
(*   [big |-> t]   t / BIG_UNIT * 10^BIG_EXP, t # 0, |t| <= BIG_MAX (a     *)
(*                 finite number near the end of the float range);         *)
(*   [inf |-> s]   s * infinity, s in {1, -1};                             *)
(*   [nan |-> TRUE].                                                       *)
(* The sum of a big and an ordinary number is the big one, as in IEEE      *)
(* double arithmetic, and a result beyond BIG_MAX is infinite.  The        *)
(* literals of the model have at most three fraction digits when ordinary  *)
(* and are multiples of 10^(BIG_EXP - 1) when big, and the factors have    *)
(* one fraction digit, so every product and sum of the model is the one    *)
(* the floats give.                                                        *)
(***************************************************************************)
EXTENDS Integers, Sequences, FiniteSets, TLC

VARIABLES
    \* process_file
    pc,          \* "fold", "emit", "done", "raised"
    rows,        \* the raw rows get_data has yielded so far, as yielded
    contacts,    \* the defaultdict(float): contact id -> total
    keys,        \* the contact ids in the order they were inserted
    order,       \* the order in which contacts.items() iterates
    max_score,   \* None or a total
    min_score,   \* None or a total
    out,         \* the entries yielded so far: <<contact_id, label, score>>
    source,      \* what get_data finds at the path
    logged,      \* the rows passed to logger.exception('Invalid row: %s')
    error,       \* the exception that left process_file, or NoError
    divisions,   \* how often (score - min) / (max - min) was evaluated
    warnings,    \* how often 'Cannot determine quartile label' was logged
    \* one call of parse_row
    row,         \* the list object passed in (parse_row assigns to it)
    row0,        \* what that list held at the call
    parsed,      \* "call", "returned", "raised"
    reason,      \* the ValidationError's message, or NoError
    \* one call of get_quartile_label
    qscore,      \* the argument
    qlabel,      \* the return value
    qpc          \* "call", "returned"

pvars == <<pc, rows, contacts, keys, order, max_score, min_score, out,
           source, logged, error, divisions, warnings>>
rvars == <<row, row0, parsed, reason>>
qvars == <<qscore, qlabel, qpc>>
vars == <<pvars, rvars, qvars>>

None == [none |-> TRUE]
NoError == ""

\* The messages of the errors that leave process_file.
UNPACK_ERROR == "ValueError: too many values to unpack (expected 3)"
NAN_ERROR == "ValueError: cannot convert float NaN to integer"
INF_ERROR == "OverflowError: cannot convert float infinity to integer"

----------------------------------------------------------------------------
(* Python values *)

PyStr(s) == [str |-> s]
PyInt(n) == [int |-> n]

\* 1.0 is FLOAT_UNIT ordinary units: thousandths.
FLOAT_UNIT == 1000
\* The big scale: 10^308 is BIG_UNIT big units, and the greatest float,
\* 1.797...e308, lies between BIG_MAX and BIG_MAX + 1 of them.
BIG_EXP == 308
BIG_UNIT == 10
BIG_MAX == 17

Fin(n) == [flt |-> n]
Big(t) == [big |-> t]
Inf(s) == [inf |-> s]
NaN == [nan |-> TRUE]

IsFin(x) == DOMAIN x = {"flt"}
IsBig(x) == DOMAIN x = {"big"}
IsInf(x) == DOMAIN x = {"inf"}
IsNaN(x) == DOMAIN x = {"nan"}

\* t big units as a float: 0.0, a big number, or an overflow.
MkBig(t) ==
    IF t = 0 THEN Fin(0)
    ELSE IF t > BIG_MAX THEN Inf(1)
    ELSE IF t < 0 - BIG_MAX THEN Inf(-1)
    ELSE Big(t)

\* -x
FNeg(x) ==
    IF IsFin(x) THEN Fin(0 - x.flt)
    ELSE IF IsBig(x) THEN Big(0 - x.big)
    ELSE IF IsInf(x) THEN Inf(0 - x.inf)
    ELSE NaN

\* x + y
FAdd(x, y) ==
    IF IsNaN(x) \/ IsNaN(y) THEN NaN
    ELSE IF IsInf(x) THEN (IF IsInf(y) /\ y.inf # x.inf THEN NaN ELSE x)
    ELSE IF IsInf(y) THEN y
    ELSE IF IsBig(x) THEN (IF IsBig(y) THEN MkBig(x.big + y.big) ELSE x)
    ELSE IF IsBig(y) THEN y
    ELSE Fin(x.flt + y.flt)

\* x - y
FSub(x, y) == FAdd(x, FNeg(y))

\* x * y for an ordinary y > 0
FMul(x, y) ==
    IF IsFin(x) THEN Fin((x.flt * y.flt) \div FLOAT_UNIT)
    ELSE IF IsBig(x) THEN MkBig((x.big * y.flt) \div FLOAT_UNIT)
    ELSE x

\* Where x lies among the scales, -infinity first.
Rank(x) ==
    IF IsInf(x) THEN 2 * x.inf
    ELSE IF IsBig(x) THEN (IF x.big > 0 THEN 1 ELSE -1)
    ELSE 0

\* x < y: False when either is a NaN.
FLess(x, y) ==
    /\ ~IsNaN(x)
    /\ ~IsNaN(y)
    /\ \/ Rank(x) < Rank(y)
       \/ /\ Rank(x) = Rank(y)
          /\ \/ IsFin(x) /\ x.flt < y.flt
             \/ IsBig(x) /\ x.big < y.big

\* x == y: False when either is a NaN.
FEq(x, y) == ~IsNaN(x) /\ ~IsNaN(y) /\ x = y

DIGITS == <<"0", "1", "2", "3", "4", "5", "6", "7", "8", "9">>

IsDigit(c) == \E i \in 1..Len(DIGITS) : DIGITS[i] = c

DigitValue(c) == (CHOOSE i \in 1..Len(DIGITS) : DIGITS[i] = c) - 1

AllDigits(s) == \A i \in 1..Len(s) : IsDigit(s[i])

RECURSIVE DigitsValue(_)
DigitsValue(s) ==
    IF s = <<>> THEN 0
    ELSE 10 * DigitsValue(SubSeq(s, 1, Len(s) - 1)) + DigitValue(s[Len(s)])

RECURSIVE LStrip(_)
LStrip(s) == IF s # <<>> /\ Head(s) = " " THEN LStrip(Tail(s)) ELSE s

RECURSIVE RStrip(_)
RStrip(s) ==
    IF s # <<>> /\ s[Len(s)] = " " THEN RStrip(SubSeq(s, 1, Len(s) - 1)) ELSE s

\* str.strip(): int() and float() skip surrounding whitespace.
Strip(s) == RStrip(LStrip(s))

HasSign(s) == s # <<>> /\ Head(s) \in {"+", "-"}

Unsigned(s) == IF HasSign(s) THEN Tail(s) ELSE s

Signed(s, n) == IF HasSign(s) /\ Head(s) = "-" THEN 0 - n ELSE n

\* int(s) does not raise ValueError: [ws] [sign] digit+ [ws].
IntParses(s) ==
    LET u == Unsigned(Strip(s)) IN u # <<>> /\ AllDigits(u)

\* int(s)
IntValue(s) == LET t == Strip(s) IN Signed(t, DigitsValue(Unsigned(t)))

\* The letters of the literals of float(), upper and lower case.
UPPER == <<"A", "E", "F", "I", "N", "T", "Y">>
LOWER == <<"a", "e", "f", "i", "n", "t", "y">>

LowerChar(c) ==
    IF \E i \in 1..Len(UPPER) : UPPER[i] = c
    THEN LOWER[CHOOSE i \in 1..Len(UPPER) : UPPER[i] = c]
    ELSE c

Lower(s) == [i \in 1..Len(s) |-> LowerChar(s[i])]

\* The index of the first c of s, or Len(s) + 1.
IndexOf(s, c) ==
    IF \E i \in 1..Len(s) : s[i] = c
    THEN CHOOSE i \in 1..Len(s) : s[i] = c /\ \A j \in 1..(i - 1) : s[j] # c
    ELSE Len(s) + 1

Before(s, c) == SubSeq(s, 1, IndexOf(s, c) - 1)

After(s, c) == SubSeq(s, IndexOf(s, c) + 1, Len(s))

INFINITIES == {<<"i", "n", "f">>, <<"i", "n", "f", "i", "n", "i", "t", "y">>}
NAN == <<"n", "a", "n">>

\* digit+ ["." digit*] | "." digit+
IsMantissa(m) ==
    /\ AllDigits(Before(m, "."))
    /\ AllDigits(After(m, "."))
    /\ Len(Before(m, ".")) + Len(After(m, ".")) > 0

\* [sign] digit+
IsExponent(x) == Unsigned(x) # <<>> /\ AllDigits(Unsigned(x))

\* float(s) does not raise ValueError:
\* [ws] [sign] (mantissa ["e" exponent] | "inf" | "infinity" | "nan") [ws],
\* in either case of the letters.
FloatParses(s) ==
    LET u == Lower(Unsigned(Strip(s))) IN
        \/ u \in INFINITIES
        \/ u = NAN
        \/ /\ IsMantissa(Before(u, "e"))
           /\ IndexOf(u, "e") <= Len(u) => IsExponent(After(u, "e"))

RECURSIVE Pow10(_)
Pow10(n) == IF n = 0 THEN 1 ELSE 10 * Pow10(n - 1)

\* The fraction digits an ordinary float of the model holds.
FRAC_DIGITS == CHOOSE n \in 0..9 : Pow10(n) = FLOAT_UNIT

\* The mantissa m in ordinary units.
MantissaValue(m) ==
    LET f == After(m, ".") IN
        DigitsValue(Before(m, ".")) * FLOAT_UNIT
        + (IF Len(f) <= FRAC_DIGITS
           THEN DigitsValue(f) * Pow10(FRAC_DIGITS - Len(f))
           ELSE DigitsValue(SubSeq(f, 1, FRAC_DIGITS)))

\* m ordinary units times 10^k, m >= 0.
Scaled(m, k) ==
    IF m = 0 THEN Fin(0)
    ELSE IF k < 0 THEN Fin(m \div Pow10(0 - k))
    ELSE IF k < BIG_EXP THEN Fin(m * Pow10(k))
    ELSE IF k > BIG_EXP + FRAC_DIGITS + 1 THEN Inf(1)
    ELSE MkBig((m * Pow10(k - BIG_EXP) * BIG_UNIT) \div FLOAT_UNIT)

\* float(s)
FloatValue(s) ==
    LET t == Strip(s)
        u == Lower(Unsigned(t))
        x == After(u, "e")
        v == IF u \in INFINITIES THEN Inf(1)
             ELSE IF u = NAN THEN NaN
             ELSE Scaled(MantissaValue(Before(u, "e")),
                         Signed(x, DigitsValue(Unsigned(x))))
    IN  IF HasSign(t) /\ Head(t) = "-" THEN FNeg(v) ELSE v

----------------------------------------------------------------------------
(* The constants of cli.py *)

web == <<"w", "e", "b">>
email == <<"e", "m", "a", "i", "l">>
social == <<"s", "o", "c", "i", "a", "l">>
webinar == <<"w", "e", "b", "i", "n", "a", "r">>

EVENT_TYPES == <<web, email, social, webinar>>

\* The factors 1.0, 1.2, 1.5, 2.0, in 1/FLOAT_UNIT.
EVENT_FACTORS ==
    << <<web, Fin(1000)>>, <<email, Fin(1200)>>, <<social, Fin(1500)>>,
       <<webinar, Fin(2000)>> >>

QUARTILE_LABELS ==
    << <<"platinum", <<75, 100>> >>,
       <<"gold", <<50, 74>> >>,
       <<"silver", <<25, 49>> >>,
       <<"bronze", <<0, 24>> >> >>

\* x in t, for a tuple t
InTuple(x, t) == \E i \in 1..Len(t) : t[i] = x

\* dict(pairs)[k]
DictGet(pairs, k) ==
    pairs[CHOOSE i \in 1..Len(pairs) :
              pairs[i][1] = k /\ \A j \in (i + 1)..Len(pairs) : pairs[j][1] # k][2]

----------------------------------------------------------------------------
(* parse_row *)

\* parse_row with the event type checked before the contact id.
parse_row_type_first(r) ==
    IF Len(r) < 3 THEN [raised |-> "Malformed row", row |-> r]
    ELSE IF ~InTuple(r[2].str, EVENT_TYPES)
    THEN [raised |-> "Unknown event type", row |-> r]
    ELSE IF ~IntParses(r[1].str)
    THEN [raised |-> "Bad contact id", row |-> r]
    ELSE LET r1 == [r EXCEPT ![1] = PyInt(IntValue(r[1].str))] IN
        IF ~FloatParses(r1[3].str)
        THEN [raised |-> "Bad score", row |-> r1]
        ELSE [raised |-> NoError,
              row |-> [r1 EXCEPT ![3] = FloatValue(r1[3].str)]]

\* What a call of parse_row leaves: the message of the ValidationError it
\* raised (NoError when it returned) and the list it was given, which it
\* assigns to and, when it returns, returns.
parse_row(r) ==
    IF Len(r) < 3 THEN [raised |-> "Malformed row", row |-> r]
    ELSE IF ~IntParses(r[1].str)
    THEN [raised |-> "Bad contact id", row |-> r]
    ELSE LET r1 == [r EXCEPT ![1] = PyInt(IntValue(r[1].str))] IN
        IF ~InTuple(r1[2].str, EVENT_TYPES)
        THEN [raised |-> "Unknown event type", row |-> r1]
        ELSE IF ~FloatParses(r1[3].str)
        THEN [raised |-> "Bad score", row |-> r1]
        ELSE [raised |-> NoError,
              row |-> [r1 EXCEPT ![3] = FloatValue(r1[3].str)]]

----------------------------------------------------------------------------
(* get_quartile_label *)

\* The orders in which dict(QUARTILE_LABELS).items() can iterate: the dict
\* has str keys, whose order Python 3.5 does not fix.
LabelOrders ==
    LET n == Len(QUARTILE_LABELS) IN
        {f \in [1..n -> 1..n] : \A i, j \in 1..n : f[i] = f[j] => i = j}

\* InBand with the upper end of the band left out.
InBandStrict(score, scores) == scores[1] <= score /\ score < scores[2]

\* scores[0] <= score <= scores[1]
InBand(score, scores) == scores[1] <= score /\ score <= scores[2]

\* The label of the first band, in the order o, that holds the score; ''
\* when the loop ends without a return.
get_quartile_label(score, o) ==
    LET hits == {i \in 1..Len(QUARTILE_LABELS) :
                     InBand(score, QUARTILE_LABELS[o[i]][2])}
    IN  IF hits = {} THEN ""
        ELSE QUARTILE_LABELS[o[CHOOSE i \in hits : \A j \in hits : i <= j]][1]

\* What get_quartile_label(score) can return, over the orders of the dict.
Labels(score) == {get_quartile_label(score, o) : o \in LabelOrders}

----------------------------------------------------------------------------
(* process_file *)

RECURSIVE Insert(_, _)
Insert(x, s) ==
    IF s = <<>> THEN <<x>>
    ELSE IF x <= Head(s) THEN <<x>> \o s
    ELSE <<Head(s)>> \o Insert(x, Tail(s))

RECURSIVE SortAsc(_)
SortAsc(s) == IF s = <<>> THEN <<>> ELSE Insert(Head(s), SortAsc(Tail(s)))

\* The orders in which the contacts dict can iterate.  Python 3.7 (and
\* CPython 3.6) iterates a dict in insertion order.  setup.py also admits
\* Python 3.5 and the shebang names it: there a dict iterates in the order of
\* its hash slots, which for fewer than six int keys in 0..7 is ascending
\* order (test_process_file inserts 1, 3, 2 and expects 1, 2, 3).
DictOrders(ks) == {ks, SortAsc(ks)}

\* AddTo with = for +=.
AddToOverwrite(d, k, amount) ==
    [j \in DOMAIN d \cup {k} |-> IF j = k THEN amount ELSE d[j]]

\* contacts[contact_id] += amount, on a defaultdict(float)
AddTo(d, k, amount) ==
    IF k \in DOMAIN d THEN [d EXCEPT ![k] = FAdd(d[k], amount)]
    ELSE [j \in DOMAIN d \cup {k} |->
             IF j = k THEN FAdd(Fin(0), amount) ELSE d[j]]

\* score * factors[event_type]
Weighted(score, event_type) == FMul(score, DictGet(EVENT_FACTORS, event_type))

\* The scan of lines 153-159 over the totals, in iteration order.
RECURSIVE Extreme(_, _, _, _)
Extreme(d, o, sofar, greater) ==
    IF o = <<>> THEN sofar
    ELSE LET score == d[Head(o)]
             better == \/ sofar = None
                       \/ IF greater THEN FLess(sofar, score)
                          ELSE FLess(score, sofar)
         IN  Extreme(d, Tail(o), IF better THEN score ELSE sofar, greater)

\* Round with a tie rounded away from zero (Python 2's round).
RoundHalfAway(n, d) == (2 * n + d) \div (2 * d)

\* round(n / d) for d > 0: Python 3 rounds a tie to the even neighbour.
Round(n, d) ==
    LET q == n \div d
        r == n % d
    IN  IF 2 * r < d THEN q
        ELSE IF 2 * r > d THEN q + 1
        ELSE IF q % 2 = 0 THEN q ELSE q + 1

Returns(n) == [returns |-> n]
Raises(e) == [raises |-> e]
DoesRaise(x) == DOMAIN x = {"raises"}

\* int(round(x / y * 100)) for floats x and y # 0.0, y >= 0.  A quotient of
\* infinities is a NaN; int() of a NaN raises ValueError, of an infinity
\* OverflowError.
Percent(x, y) ==
    IF IsNaN(x) \/ IsNaN(y) \/ (IsInf(x) /\ IsInf(y)) THEN Raises(NAN_ERROR)
    ELSE IF IsInf(x) THEN Raises(INF_ERROR)
    ELSE IF IsInf(y) THEN Returns(0)
    ELSE IF IsBig(x) /\ IsBig(y) THEN Returns(Round(x.big * 100, y.big))
    ELSE IF IsFin(x) /\ IsFin(y) THEN Returns(Round(x.flt * 100, y.flt))
    ELSE IF IsFin(x) THEN Returns(0)
    ELSE Raises(INF_ERROR)

\* Lines 164-169.
Normalized(score, mx, mn) ==
    IF FEq(mx, mn) THEN Returns(0)
    ELSE Percent(FSub(score, mn), FSub(mx, mn))

\* What the loop of lines 144-150 holds between two rows.
FoldState(c, k, l, e) == [contacts |-> c, keys |-> k, logged |-> l, error |-> e]

\* fold_row keeping one key for every valid row, as a list of events would.
fold_row_key_per_row(s, r) ==
    LET p == parse_row(r) IN
        IF p.raised # NoError
        THEN [s EXCEPT !.logged = Append(s.logged, p.row)]
        ELSE IF Len(p.row) # 3
        THEN [s EXCEPT !.error = UNPACK_ERROR]
        ELSE [s EXCEPT
                !.contacts = AddTo(s.contacts, p.row[1].int,
                                   Weighted(p.row[3], p.row[2].str)),
                !.keys = Append(s.keys, p.row[1].int)]

\* fold_row reading contacts[contact_id] of a row that failed after its
\* contact id was converted: a defaultdict inserts the key it is asked for.
fold_row_touch(s, r) ==
    LET p == parse_row(r) IN
        IF p.raised # NoError
        THEN IF Len(p.row) > 0 /\ DOMAIN p.row[1] = {"int"}
             THEN [s EXCEPT
                     !.logged = Append(s.logged, p.row),
                     !.contacts = AddTo(s.contacts, p.row[1].int, Fin(0)),
                     !.keys = IF p.row[1].int \in DOMAIN s.contacts THEN s.keys
                              ELSE Append(s.keys, p.row[1].int)]
             ELSE [s EXCEPT !.logged = Append(s.logged, p.row)]
        ELSE IF Len(p.row) # 3
        THEN [s EXCEPT !.error = UNPACK_ERROR]
        ELSE [s EXCEPT
                !.contacts = AddTo(s.contacts, p.row[1].int,
                                   Weighted(p.row[3], p.row[2].str)),
                !.keys = IF p.row[1].int \in DOMAIN s.contacts THEN s.keys
                         ELSE Append(s.keys, p.row[1].int)]

\* One turn of the loop of lines 144-150 on the row r.
fold_row(s, r) ==
    LET p == parse_row(r) IN
        IF p.raised # NoError
        THEN \* except ValidationError: logger.exception('Invalid row: %s', row)
             [s EXCEPT !.logged = Append(s.logged, p.row)]
        ELSE IF Len(p.row) # 3
        THEN \* contact_id, event_type, score = <a list of more than 3 items>
             [s EXCEPT !.error = UNPACK_ERROR]
        ELSE LET contact_id == p.row[1].int
                 event_type == p.row[2].str
                 score == p.row[3]
             IN  [s EXCEPT
                    !.contacts = AddTo(s.contacts, contact_id,
                                       Weighted(score, event_type)),
                    !.keys = IF contact_id \in DOMAIN s.contacts THEN s.keys
                             ELSE Append(s.keys, contact_id)]

\* The rows get_data yields in the model.
ROW(a, b, c) == <<PyStr(a), PyStr(b), PyStr(c)>>
people == <<"p", "e", "o", "p", "l", "e">>

InputRows ==
    {ROW(<<"0", "2">>, web, <<"-", "1">>),
     ROW(<<"0", "2">>, web, <<"1", "5">>),
     ROW(<<"3">>, web, <<"1", "5">>),
     ROW(<<"1">>, email, <<"7", ".", "5">>),
     ROW(<<"1">>, social, <<"2">>),
     ROW(<<"1">>, webinar, <<"2", ".", "5">>),
     ROW(<<"1">>, web, <<"n", "a", "n">>),
     ROW(<<"1">>, web, <<"-", "1", "e", "3", "0", "8">>),
     ROW(<<"3">>, email, <<"1", "e", "3", "0", "8">>),
     ROW(<<"3">>, webinar, <<"1", "e", "3", "0", "8">>)}
    \cup {<<PyStr(<<"1">>), PyStr(web)>>,
          ROW(<<>>, webinar, <<"1", "5">>),
          ROW(<<"1">>, people, <<"1", "5">>),
          ROW(<<"1">>, web, <<>>),
          ROW(<<"3">>, web, <<"1", "5">>) \o <<PyStr(<<"x">>)>>}

MaxRows == 3

\* What get_data finds at the path: no file, an unreadable file, a file whose
\* dialect the Sniffer cannot tell (an empty file is one), or rows.
SOURCES == {"missing", "unreadable", "undetected", "rows"}

\* The rows parse_row is called on in SpecParse: every prefix of every
\* combination of these fields, and each with one extra field.
ID_FIELDS == {<<"1">>, <<"-", "2">>, <<" ", "3", " ">>, <<>>, <<"q", "w">>,
              <<"1", ".", "5">>}
TYPE_FIELDS == {web, email, social, webinar, people, <<>>}
SCORE_FIELDS == {<<"2", "3", ".", "4", "5">>, <<>>, <<"x">>, <<"7">>,
                 <<".", "5">>, <<"1", ".">>, <<".">>, <<"-">>,
                 <<"N", "a", "N">>, <<"-", "i", "n", "f">>, <<"i", "n">>,
                 <<"1", "e", "3", "0", "8">>, <<"1", "e">>, <<"e", "5">>}

ParseRows ==
    LET full == {ROW(a, b, c) :
                     a \in ID_FIELDS, b \in TYPE_FIELDS, c \in SCORE_FIELDS}
    IN  {SubSeq(r, 1, n) : r \in full, n \in 0..3}
        \cup {r \o <<PyStr(<<"x">>)>> : r \in full}

\* get_quartile_label is called in SpecLabel on 0 - LabelMargin ..
\* 100 + LabelMargin.
LabelMargin == 20

IdleFold ==
    /\ rows = <<>>
    /\ contacts = <<>>
    /\ keys = <<>>
    /\ order = <<>>
    /\ max_score = None
    /\ min_score = None
    /\ out = <<>>
    /\ logged = <<>>
    /\ error = NoError
    /\ divisions = 0
    /\ warnings = 0

IdleParse ==
    /\ row = <<>>
    /\ row0 = <<>>
    /\ parsed = "idle"
    /\ reason = NoError

IdleLabel ==
    /\ qscore = 0
    /\ qlabel = ""
    /\ qpc = "idle"

\* process_file(the_file) is called.
Init ==
    /\ pc = "fold"
    /\ source \in SOURCES
    /\ IdleFold
    /\ IdleParse
    /\ IdleLabel

\* One turn of the loop of lines 144-150 on the next row of get_data.
ReadRow(r) ==
    /\ pc = "fold"
    /\ source = "rows"
    /\ Len(rows) < MaxRows
    /\ rows' = Append(rows, r)
    /\ LET s == fold_row(FoldState(contacts, keys, logged, error), r) IN
        /\ contacts' = s.contacts
        /\ keys' = s.keys
        /\ logged' = s.logged
        /\ error' = s.error
        /\ pc' = IF s.error # NoError THEN "raised" ELSE pc
    /\ UNCHANGED <<order, max_score, min_score, out, source, divisions,
                   warnings, rvars, qvars>>

\* get_data is exhausted (at once when the source is bad): lines 151-161 and
\* the start of the loop of line 163.
Extremes ==
    /\ pc = "fold"
    /\ \E o \in DictOrders(keys) :
        /\ order' = o
        /\ max_score' = Extreme(contacts, o, None, TRUE)
        /\ min_score' = Extreme(contacts, o, None, FALSE)
    /\ pc' = IF keys = <<>> THEN "done" ELSE "emit"
    /\ UNCHANGED <<rows, contacts, keys, out, source, logged, error,
                   divisions, warnings, rvars, qvars>>

\* One turn of the loop of lines 163-176.
Emit ==
    /\ pc = "emit"
    /\ LET contact_id == order[Len(out) + 1]
           score == contacts[contact_id]
           normalized_score == Normalized(score, max_score, min_score)
       IN  /\ divisions' = IF FEq(max_score, min_score) THEN divisions
                           ELSE divisions + 1
           /\ IF DoesRaise(normalized_score)
              THEN /\ pc' = "raised"
                   /\ error' = normalized_score.raises
                   /\ UNCHANGED <<out, warnings>>
              ELSE /\ \E label \in Labels(normalized_score.returns) :
                        /\ warnings' = IF label = "" THEN warnings + 1
                                       ELSE warnings
                        /\ out' = Append(out, <<contact_id, label,
                                                normalized_score.returns>>)
                   /\ pc' = IF Len(out) + 1 = Len(order) THEN "done"
                            ELSE "emit"
                   /\ UNCHANGED error
    /\ UNCHANGED <<rows, contacts, keys, order, max_score, min_score, source,
                   logged, rvars, qvars>>

Next ==
    \/ \E r \in InputRows : ReadRow(r)
    \/ Extremes
    \/ Emit

Spec == Init /\ [][Next]_vars

----------------------------------------------------------------------------
(* One call of parse_row *)

InitParse ==
    /\ pc = "idle"
    /\ source = "rows"
    /\ IdleFold
    /\ IdleLabel
    /\ row0 \in ParseRows
    /\ row = row0
    /\ parsed = "call"
    /\ reason = NoError

ParseRow ==
    /\ parsed = "call"
    /\ LET p == parse_row(row) IN
        /\ row' = p.row
        /\ reason' = p.raised
        /\ parsed' = IF p.raised = NoError THEN "returned" ELSE "raised"
    /\ UNCHANGED <<row0, pvars, qvars>>

NextParse == ParseRow

SpecParse == InitParse /\ [][NextParse]_vars

----------------------------------------------------------------------------
(* One call of get_quartile_label *)

InitLabel ==
    /\ pc = "idle"
    /\ source = "rows"
    /\ IdleFold
    /\ IdleParse
    /\ qscore \in (0 - LabelMargin)..(100 + LabelMargin)
    /\ qlabel = ""
    /\ qpc = "call"

GetLabel ==
    /\ qpc = "call"
    /\ \E label \in Labels(qscore) :
        /\ qlabel' = label
        /\ warnings' = IF label = "" THEN warnings + 1 ELSE warnings
    /\ qpc' = "returned"
    /\ UNCHANGED <<qscore, rvars, pc, rows, contacts, keys, order, max_score,
                   min_score, out, source, logged, error, divisions>>

NextLabel == GetLabel

SpecLabel == InitLabel /\ [][NextLabel]_vars

----------------------------------------------------------------------------
(* The properties *)

\* None of the four checks of parse_row fails on the row.
IsValidRow(r) ==
    /\ Len(r) >= 3
    /\ IntParses(r[1].str)
    /\ InTuple(r[2].str, EVENT_TYPES)
    /\ FloatParses(r[3].str)

ValidOnly(rs) == SelectSeq(rs, IsValidRow)

RowId(r) == IntValue(r[1].str)

\* The weights as the specification gives them.
SpecWeight(e) ==
    CASE e = web -> Fin(FLOAT_UNIT)
      [] e = email -> Fin((12 * FLOAT_UNIT) \div 10)
      [] e = social -> Fin((15 * FLOAT_UNIT) \div 10)
      [] e = webinar -> Fin(2 * FLOAT_UNIT)

\* score * weight(event_type) of a valid row
RowAmount(r) == FMul(FloatValue(r[3].str), SpecWeight(r[2].str))

ValidIds(rs) == {RowId(rs[i]) : i \in {j \in 1..Len(rs) : IsValidRow(rs[j])}}

\* The float sum, in the order of the rows, of the amounts of the valid rows
\* of contact k.
RECURSIVE SumFor(_, _)
SumFor(k, rs) ==
    IF rs = <<>> THEN Fin(0)
    ELSE LET before == SumFor(k, SubSeq(rs, 1, Len(rs) - 1))
             last == rs[Len(rs)]
         IN  IF IsValidRow(last) /\ RowId(last) = k
             THEN FAdd(before, RowAmount(last))
             ELSE before

\* The contact ids of the valid rows, each once, in the order of its first
\* valid row.
RECURSIVE FirstSeen(_)
FirstSeen(rs) ==
    IF rs = <<>> THEN <<>>
    ELSE LET before == FirstSeen(SubSeq(rs, 1, Len(rs) - 1))
             last == rs[Len(rs)]
         IN  IF IsValidRow(last) /\ ~InTuple(RowId(last), before)
             THEN Append(before, RowId(last))
             ELSE before

OutIds == [i \in 1..Len(out) |-> out[i][1]]

\* Any two contacts have equal totals; so it is with one contact.
AllEqual ==
    \A a, b \in DOMAIN contacts : a # b => FEq(contacts[a], contacts[b])

\* The fold has ended without an error.
Folded == pc \in {"emit", "done"} \/ (pc = "raised" /\ error # UNPACK_ERROR)

\* No valid row has an infinity or a NaN for its score.
FiniteScores ==
    \A i \in 1..Len(rows) :
        IsValidRow(rows[i]) =>
            LET score == FloatValue(rows[i][3].str) IN
                IsFin(score) \/ IsBig(score)

\* The fold of lines 141-150 over the rows rs, from the state s.
RECURSIVE RunFold(_, _)
RunFold(s, rs) ==
    IF rs = <<>> \/ s.error # NoError THEN s
    ELSE RunFold(fold_row(s, Head(rs)), Tail(rs))

\* The entries of lines 163-176 from the i-th contact of o on, after the
\* entries acc, and the error that ends them.
RECURSIVE ReportFrom(_, _, _, _, _, _)
ReportFrom(c, o, mx, mn, i, acc) ==
    IF i > Len(o) THEN [out |-> acc, error |-> NoError]
    ELSE LET n == Normalized(c[o[i]], mx, mn) IN
            IF DoesRaise(n) THEN [out |-> acc, error |-> n.raises]
            ELSE ReportFrom(c, o, mx, mn, i + 1,
                     Append(acc, <<o[i],
                                   get_quartile_label(n.returns,
                                       [j \in 1..Len(QUARTILE_LABELS) |-> j]),
                                   n.returns>>))

\* The report of lines 153-176 for the aggregate c iterated in the order o.
Report(c, o) ==
    ReportFrom(c, o, Extreme(c, o, None, TRUE), Extreme(c, o, None, FALSE),
               1, <<>>)

\* C1: a row of more than 3 fields whose first three are valid counts as its
\* first three fields do, and no error of it reaches the caller.
C1_ExtraFieldsIgnored ==
    (\E i \in 1..Len(rows) : Len(rows[i]) > 3 /\ IsValidRow(rows[i]))
        => /\ error # UNPACK_ERROR
           /\ DOMAIN contacts = ValidIds(rows)
           /\ \A k \in DOMAIN contacts : contacts[k] = SumFor(k, rows)

\* C2 as claimed: the entries come in first-seen order, contact A before
\* contact B exactly when A's first valid row precedes B's.
C2_FirstSeenOrder == pc = "done" => OutIds = FirstSeen(rows)

\* C2 as amended: the entries are of contact ids that have a valid row, no
\* id has two, and a run that completes has one for each, in some order.
C2_OneEntryPerContact ==
    /\ \A i \in 1..Len(out) : out[i][1] \in ValidIds(rows)
    /\ \A i, j \in 1..Len(out) : out[i][1] = out[j][1] => i = j
    /\ pc = "done" => Len(out) = Len(FirstSeen(rows))

C2_Witness ==
    /\ pc = "done"
    /\ FirstSeen(rows) = <<1, 3, 2>>
    /\ Len(out) = 3

\* C3: parse_row reports the reason of the first check that fails, in the
\* order length, contact id, event type, score, and returns a record exactly
\* when no check fails.
C3_FirstFailureReported ==
    parsed # "call" =>
        LET short == Len(row0) < 3
            badId == ~IntParses(row0[1].str)
            badType == ~InTuple(row0[2].str, EVENT_TYPES)
            badScore == ~FloatParses(row0[3].str)
        IN  /\ (reason = "Malformed row") <=> short
            /\ (reason = "Bad contact id") <=> (~short /\ badId)
            /\ (reason = "Unknown event type")
                   <=> (~short /\ ~badId /\ badType)
            /\ (reason = "Bad score")
                   <=> (~short /\ ~badId /\ ~badType /\ badScore)
            /\ (parsed = "returned") <=> IsValidRow(row0)
            /\ (parsed = "returned") <=> (reason = NoError)

C3_Witness ==
    /\ parsed = "raised"
    /\ Len(row0) > 3
    /\ ~IntParses(row0[1].str)
    /\ ~InTuple(row0[2].str, EVENT_TYPES)
    /\ ~FloatParses(row0[3].str)
    /\ reason = "Bad contact id"

\* C4: a row that fails validation adds no contact id, changes no total and
\* does not end the fold; the run ends as the run on the stream without its
\* invalid rows does, with the same entries.
C4_InvalidRowsSkipped ==
    LET f == RunFold(FoldState(<<>>, <<>>, <<>>, NoError), ValidOnly(rows)) IN
        /\ contacts = f.contacts
        /\ keys = f.keys
        /\ (error = UNPACK_ERROR) <=> (f.error = UNPACK_ERROR)
        /\ Folded => order \in DictOrders(f.keys)
        /\ (Folded /\ pc # "emit") =>
               /\ out = Report(f.contacts, order).out
               /\ error = Report(f.contacts, order).error

C4_Witness ==
    /\ pc = "done"
    /\ Len(rows) = 3
    /\ IsValidRow(rows[1])
    /\ ~IsValidRow(rows[2])
    /\ IsValidRow(rows[3])
    /\ Len(out) = 2

\* C5: after the fold each contact's total is the sum of score * weight over
\* its valid rows, and the contacts are those of the valid rows.
C5_WeightedSum ==
    error # UNPACK_ERROR =>
        /\ DOMAIN contacts = ValidIds(rows)
        /\ \A k \in DOMAIN contacts : contacts[k] = SumFor(k, rows)

C5_Witness ==
    /\ pc = "done"
    /\ \E i, j \in 1..Len(rows) :
        /\ i < j
        /\ IsValidRow(rows[i]) /\ IsValidRow(rows[j])
        /\ RowId(rows[i]) = RowId(rows[j])
        /\ rows[i][2].str = email /\ rows[j][2].str = social
        /\ IsFin(RowAmount(rows[i])) /\ IsFin(RowAmount(rows[j]))
        /\ contacts[RowId(rows[i])]
               = Fin(RowAmount(rows[i]).flt + RowAmount(rows[j]).flt)

\* C6: when all totals are equal, one contact included, nothing is divided
\* by max_score - min_score, no error ends the run, and every contact gets
\* the entry (id, 'bronze', 0).
C6_EqualTotals ==
    (Folded /\ AllEqual) =>
        /\ divisions = 0
        /\ error = NoError
        /\ \A i \in 1..Len(out) : out[i][2] = "bronze" /\ out[i][3] = 0
        /\ pc = "done" => Len(out) = Cardinality(DOMAIN contacts)

\* (score - min_score) / (max_score - min_score) * 100 of entry i as a
\* fraction <<n, d>> of integers with d > 0; <<>> when it is no number.  An
\* ordinary or a big number over a number of a greater scale is less than
\* any float but 0.0.
Quotient(i) ==
    LET x == FSub(contacts[out[i][1]], min_score)
        y == FSub(max_score, min_score)
    IN  IF IsFin(x) /\ IsFin(y) /\ y.flt > 0 THEN <<x.flt * 100, y.flt>>
        ELSE IF IsBig(x) /\ IsBig(y) /\ y.big > 0 THEN <<x.big * 100, y.big>>
        ELSE IF IsFin(x) /\ (IsBig(y) \/ IsInf(y)) THEN <<0, 1>>
        ELSE IF IsBig(x) /\ IsInf(y) THEN <<0, 1>>
        ELSE <<>>

\* The tie of entry i: its quotient lies halfway between two integers.
IsTie(i) ==
    LET q == Quotient(i) IN q # <<>> /\ 2 * (q[1] % q[2]) = q[2]

\* C7 as claimed: the normalized score is the nearest integer, a tie rounded
\* away from zero.
C7_RoundHalfAwayFromZero ==
    \A i \in 1..Len(out) :
        ~FEq(max_score, min_score) =>
            LET q == Quotient(i) IN
                /\ q # <<>>
                /\ 2 * (out[i][3] * q[2] - q[1]) <= q[2]
                /\ 2 * (q[1] - out[i][3] * q[2]) < q[2]

\* C7 as amended: the normalized score of an entry is the nearest integer, a
\* tie rounded to the even neighbour.
C7_RoundHalfEven ==
    \A i \in 1..Len(out) :
        ~FEq(max_score, min_score) =>
            LET q == Quotient(i) IN
                /\ q # <<>>
                /\ 2 * (out[i][3] * q[2] - q[1]) <= q[2]
                /\ 2 * (q[1] - out[i][3] * q[2]) <= q[2]
                /\ IsTie(i) => out[i][3] % 2 = 0

C7_Witness ==
    /\ pc = "done"
    /\ ~FEq(max_score, min_score)
    /\ \E i \in 1..Len(out) : IsTie(i) /\ out[i][3] = 62

\* C8: every score in 0..100 gets the label of the one band that holds it
\* (75..100 platinum, 50..74 gold, 25..49 silver, 0..24 bronze) and every
\* other score the empty label.
C8_LabelOfBand ==
    qpc = "returned" =>
        qlabel = (IF qscore \in 75..100 THEN "platinum"
                  ELSE IF qscore \in 50..74 THEN "gold"
                  ELSE IF qscore \in 25..49 THEN "silver"
                  ELSE IF qscore \in 0..24 THEN "bronze"
                  ELSE "")

C8_Witness == qpc = "returned" /\ qscore = 74 /\ qlabel = "gold"

\* C9: parse_row leaves the row it is given unchanged, whether it returns or
\* raises.
C9_RowUnchanged == parsed # "call" => row = row0

\* C10: when the scores are finite, normalizing raises no error, every entry
\* has a normalized score in 0..100 and a label, the warning of
\* get_quartile_label is never logged, and when the totals differ a contact
\* with the least total gets 0 and one with the greatest gets 100.
C10_ScoresInRange ==
    FiniteScores =>
        /\ warnings = 0
        /\ error \in {NoError, UNPACK_ERROR}
        /\ \A i \in 1..Len(out) :
            /\ out[i][3] \in 0..100
            /\ out[i][2] # ""
            /\ ~AllEqual =>
                /\ (\A k \in DOMAIN contacts :
                        ~FLess(contacts[k], contacts[out[i][1]]))
                       => out[i][3] = 0
                /\ (\A k \in DOMAIN contacts :
                        ~FLess(contacts[out[i][1]], contacts[k]))
                       => out[i][3] = 100

=============================================================================
